---- MODULE Spec2Model ----
(***************************************************************************)
(* Model of scripts/subscriber_go2.py: the MpcSubscriber node that bridges *)
(* a whole-body MPC and a simulated Go2 quadruped.                         *)
(*                                                                         *)
(* Reals are fixed-point integers in thousandths (0.785 rad is 785, the    *)
(* torque -3.71 Nm is -3710); gains are plain integers, so every control   *)
(* law of the node, being linear, is computed exactly.  Python's 0-based   *)
(* slices become 1-based SubSeq: q[7:] is SubSeq(q, 8, Len(q)).            *)
(***************************************************************************)
EXTENDS Integers, Sequences, FiniteSets, TLC

(***************************************************************************)
(* Dimensions of the robot model and fixed data of the node.               *)
(***************************************************************************)
\* rmodel.nq: length of q0
nq == 19
\* rmodel.nv: length of v0
nv == 18
\* self.nu = rmodel.nv - 6
nu == nv - 6
\* self.ndx = rmodel.nv * 2
ndx == nv * 2
\* gain = 100
gain == 100
\* the unit of the fixed-point representation (1.0)
One == 1000
\* the number of feet of the handler (length of contact_states)
NumFeet == 4

\* Most deliveries of a command in one behaviour.
MaxDeliveries == 2

Zeros(n) == [i \in 1..n |-> 0]

\* q0 of SimulationWrapper.__init__
q0 ==
  << 0, 0, 335, 0, 0, 0, One,
     68, 785, -1440,
     -68, 785, -1440,
     68, 785, -1440,
     -68, 785, -1440 >>

\* v0 = np.zeros(rmodel.nv)
v0 == Zeros(nv)

\* self.u0 of MpcSubscriber.__init__
u0_default ==
  << -3710, -1810, 5250,
     3140, -1370, 5540,
     -1390, -1090, 3360,
     1950, -610, 3610 >>

\* self.x0 of MpcSubscriber.__init__: the state read from the plant there
x0_default == q0 \o v0

\* np.identity(n) * g, as a sequence of rows
Identity(n, g) == [i \in 1..n |-> [j \in 1..n |-> IF i = j THEN g ELSE 0]]

\* self.Kp = np.identity(self.nu) * gain
Kp == Identity(nu, gain)

\* self.Kd = np.identity(self.nu) * 1
Kd == Identity(nu, 1)

\* self.controlled_joint_ids (0-based in the code)
controlled_joint_ids == [i \in 1..nu |-> i - 1]

\* the mpc_type values of the launch file, and any other value
ParamValues == {"fulldynamics", "kinodynamics", "other"}

(***************************************************************************)
(* numpy on vectors and matrices.                                          *)
(***************************************************************************)
\* a - b raises ValueError unless the shapes broadcast
Broadcasts(a, b) == Len(a) = Len(b) \/ Len(a) = 1 \/ Len(b) = 1

BLen(a, b) == IF Len(a) >= Len(b) THEN Len(a) ELSE Len(b)

BAt(a, i) == IF Len(a) = 1 THEN a[1] ELSE a[i]

\* a - b
VSub(a, b) == [i \in 1..BLen(a, b) |-> BAt(a, i) - BAt(b, i)]

RECURSIVE DotFrom(_, _, _)
DotFrom(r, x, i) == IF i > Len(r) THEN 0 ELSE r[i] * x[i] + DotFrom(r, x, i + 1)

\* K @ x is defined when every row of K is as long as x
MatVecOk(K, x) == \A i \in 1..Len(K) : Len(K[i]) = Len(x)

\* K @ x
MatVec(K, x) == [i \in 1..Len(K) |-> DotFrom(K[i], x, 1)]

\* np.array(flat).reshape((rows, cols)) raises ValueError on another size
ReshapeOk(flat, rows, cols) == Len(flat) = rows * cols

\* np.array(flat).reshape((rows, cols)), row-major
Reshape(flat, rows, cols) ==
  [i \in 1..rows |-> [j \in 1..cols |-> flat[(i - 1) * cols + j]]]

\* a[lo:hi] of Python, clipped to the array as numpy does
Slice(a, lo, hi) ==
  SubSeq(a, lo + 1, IF hi > Len(a) THEN Len(a) ELSE hi)

(***************************************************************************)
(* manifolds.MultibodyPhaseSpace(rmodel).difference for the free-flyer     *)
(* model: the base pose is compared in SE(3), the joints and the velocity  *)
(* by subtraction.  Quaternions are stored (x, y, z, w) as pinocchio does. *)
(***************************************************************************)
QuatConj(a) == << -a[1], -a[2], -a[3], a[4] >>

\* Hamilton product of two fixed-point quaternions
QuatMul(a, b) ==
  << (a[4] * b[1] + a[1] * b[4] + a[2] * b[3] - a[3] * b[2]) \div One,
     (a[4] * b[2] - a[1] * b[3] + a[2] * b[4] + a[3] * b[1]) \div One,
     (a[4] * b[3] + a[1] * b[2] - a[2] * b[1] + a[3] * b[4]) \div One,
     (a[4] * b[4] - a[1] * b[1] - a[2] * b[2] - a[3] * b[3]) \div One >>

\* R(a)^T d: the vector d seen from the frame of rotation a.  The rotation
\* matrix is quadratic in the quaternion, so a and -a give the same result.
RotateInv(a, d) ==
  LET r == QuatMul(QuatMul(QuatConj(a), << d[1], d[2], d[3], 0 >>), a)
  IN  << r[1], r[2], r[3] >>

\* log3 of the rotation of a unit quaternion r: the rotation vector
\* 2 * atan2(|r_xyz|, |r_w|) * r_xyz / |r_xyz| of the representative with
\* r_w >= 0, to first order in r_xyz (exact at the identity rotation, the
\* only relative rotation between the plant states of this model).
Log3(r) ==
  LET s == IF r[4] < 0 THEN -1 ELSE 1
  IN  << 2 * s * r[1], 2 * s * r[2], 2 * s * r[3] >>

\* pin.difference(rmodel, qa, qb): log6(Ma^-1 Mb) for the base, qb - qa
\* for the joints
ConfigDifference(qa, qb) ==
  LET ta  == SubSeq(qa, 1, 3)
      tb  == SubSeq(qb, 1, 3)
      ra  == SubSeq(qa, 4, 7)
      rb  == SubSeq(qb, 4, 7)
      lin == RotateInv(ra, VSub(tb, ta))
      ang == Log3(QuatMul(QuatConj(ra), rb))
  IN  lin \o ang \o VSub(SubSeq(qb, 8, nq), SubSeq(qa, 8, nq))

\* space.difference(xa, xb) is defined on states of nq + nv entries
DifferenceOk(xa, xb) == Len(xa) = nq + nv /\ Len(xb) = nq + nv

\* a difference by plain subtraction of the two stored vectors
DifferencePlain(xa, xb) == VSub(xb, xa)

\* space.difference(xa, xb): the tangent vector from xa to xb, ndx entries
Difference(xa, xb) ==
  ConfigDifference(SubSeq(xa, 1, nq), SubSeq(xb, 1, nq))
    \o VSub(SubSeq(xb, nq + 1, nq + nv), SubSeq(xa, nq + 1, nq + nv))

(***************************************************************************)
(* The collaborators the node does not own: the states the simulator can   *)
(* report, the Torque messages the MPC can send, the results of the QP.    *)
(***************************************************************************)
\* q0 with the base moved and one joint off the nominal posture
qMoved == [q0 EXCEPT ![1] = 5, ![8] = 78]

vMoved == [v0 EXCEPT ![1] = 20, ![7] = 500]

\* q0 with the other quaternion of the same base rotation
qFlipped == [q0 EXCEPT ![7] = -One]

\* what simulator.get_state() can return: (q, v)
PlantStates ==
  { [q |-> q0, v |-> v0],
    [q |-> qMoved, v |-> vMoved],
    [q |-> qFlipped, v |-> v0] }

\* a flattened nu x ndx gain: Kq on the joint positions, Kv on their rates
RiccatiPD(Kq, Kv) ==
  [k \in 1..(nu * ndx) |->
     LET i == ((k - 1) \div ndx) + 1
         j == ((k - 1) % ndx) + 1
     IN  IF j = 6 + i THEN Kq ELSE IF j = nv + 6 + i THEN Kv ELSE 0]

\* a flattened nu x ndx gain: Kw on the error of the base orientation
RiccatiBase(Kw) ==
  [k \in 1..(nu * ndx) |->
     LET i == ((k - 1) \div ndx) + 1
         j == ((k - 1) % ndx) + 1
     IN  IF j = 4 + ((i - 1) % 3) THEN Kw ELSE 0]

\* Torque messages: two well-formed ones, one whose riccati is one entry
\* short, one whose u0 is one entry short
MsgA ==
  [u0 |-> [i \in 1..nu |-> 1000], x0 |-> q0 \o v0,
   riccati |-> RiccatiBase(30),
   contact_states |-> << TRUE, TRUE, TRUE, TRUE >>,
   forces |-> [i \in 1..(3 * NumFeet) |-> 10], a0 |-> Zeros(nv)]

MsgB ==
  [u0 |-> [i \in 1..nu |-> 2000 + i], x0 |-> qMoved \o v0,
   riccati |-> RiccatiPD(50, 2),
   contact_states |-> << TRUE, FALSE, FALSE, TRUE >>,
   forces |-> [i \in 1..(3 * NumFeet) |-> 20], a0 |-> [i \in 1..nv |-> 3]]

MsgShortRiccati ==
  [u0 |-> [i \in 1..nu |-> 3000], x0 |-> qMoved \o vMoved,
   riccati |-> Zeros(nu * ndx - 1),
   contact_states |-> << FALSE, TRUE, TRUE, FALSE >>,
   forces |-> [i \in 1..(3 * NumFeet) |-> 30], a0 |-> [i \in 1..nv |-> 5]]

MsgShortU0 ==
  [u0 |-> [i \in 1..(nu - 1) |-> 4000], x0 |-> q0 \o vMoved,
   riccati |-> RiccatiPD(7, 0),
   contact_states |-> << FALSE, FALSE, TRUE, TRUE >>,
   forces |-> [i \in 1..(3 * NumFeet) |-> 40], a0 |-> [i \in 1..nv |-> 7]]

Messages == { MsgA, MsgB, MsgShortRiccati, MsgShortU0 }

\* A FullDynamics message has the sizes the node expects
WellFormed(msg) ==
  /\ Len(msg.u0) = nu
  /\ Len(msg.x0) = nq + nv
  /\ Len(msg.riccati) = nu * ndx

\* what WB_solver.solve_qp can leave in solved_torque
QPOutcomes ==
  { [feasible |-> TRUE, solved_torque |-> [i \in 1..nu |-> 100 * i]],
    [feasible |-> FALSE, solved_torque |-> [i \in 1..nu |-> 99000]] }

\* Most timer ticks in one behaviour.
MaxTicks == 2

\* Most deliveries and most ticks under the preemptive executor.
MaxPreemptDeliveries == 2

MaxPreemptTicks == 1

(***************************************************************************)
(* The state of the node (the attributes of MpcSubscriber), of the plant,  *)
(* of the executor, and the record of what the callbacks did.              *)
(***************************************************************************)
VARIABLES
  parameter,       \* self.parameter.value, the mpc_type read at construction
  start_mpc,       \* self.start_mpc
  u0, x0, K0,      \* self.u0, self.x0, self.K0
  contact_states,  \* self.contact_states (<< >> while never assigned)
  forces, a0,      \* self.forces, self.a0 (<< >> while never assigned)
  current_torque,  \* self.current_torque
  torque_simu,     \* self.torque_simu
  WB_solver,       \* self.WB_solver: "None" or "IDSolver"
  handler,         \* the (q, v) last given to self.handler.updateState
  sim,             \* the state of wrapper.simulator: [q, v]
  measure,         \* self.measure: [position, velocity]
  robot_state,     \* self.robot_state
  odom_trans,      \* self.odom_trans
  published,       \* the latest messages sent on the three outputs
  crashed,         \* an exception left a callback and ended rclpy.spin
  executor,        \* "single": callbacks run to completion; "preemptive"
  tpc, lpc,        \* position of the tick and of the listener (preemptive)
  t_q, t_v,        \* q_current, v_current of the running tick
  t_branch,        \* the branch the running tick has selected
  l_msg,           \* msg of the running listener_callback
  src,             \* which delivery wrote each stored field (0: none)
  delivered,       \* deliveries begun so far; the latest one's number
  completed,       \* number of the last delivery whose callback returned
  last_msg,        \* the message of the latest delivery
  ticks,           \* timer ticks begun so far
  executed,        \* calls of simulator.execute so far
  last_tick        \* what the latest tick read, chose and computed

node_vars ==
  << parameter, start_mpc, u0, x0, K0, contact_states, forces, a0,
     current_torque, torque_simu, WB_solver, handler, measure, robot_state,
     odom_trans >>

vars ==
  << parameter, start_mpc, u0, x0, K0, contact_states, forces, a0,
     current_torque, torque_simu, WB_solver, handler, sim, measure,
     robot_state, odom_trans, published, crashed, executor, tpc, lpc, t_q,
     t_v, t_branch, l_msg, src, delivered, completed, last_msg, ticks,
     executed, last_tick >>

(***************************************************************************)
(* set_messages                                                            *)
(***************************************************************************)
\* a loop that fills the joints in the reverse order
SetJointsReversed(old, from, offset) ==
  [k \in 1..Len(old) |->
     IF k <= nu THEN from[offset + (nu + 1 - k)] ELSE old[k]]

\* the loop over controlled_joint_ids: entry joint_id of old takes
\* from[offset + meas_id]
SetJoints(old, from, offset) ==
  [k \in 1..Len(old) |->
     IF \E m \in 1..nu : controlled_joint_ids[m] = k - 1
       THEN from[offset + (CHOOSE m \in 1..nu : controlled_joint_ids[m] = k - 1)]
       ELSE old[k]]

\* self.measure after set_messages(q, v)
SetMeasure(old, q, v) ==
  [position |-> SetJoints(old.position, q, 7),
   velocity |-> SetJoints(old.velocity, v, 6)]

\* self.robot_state after set_messages(q, v)
SetRobotState(old, q, v) ==
  [position    |-> SetJoints(old.position, q, 7),
   velocity    |-> SetJoints(old.velocity, v, 6),
   translation |-> << q[1], q[2], q[3] >>,
   rotation    |-> [x |-> q[4], y |-> q[5], z |-> q[6], w |-> q[7]],
   linear      |-> << v[1], v[2], v[3] >>,
   angular     |-> << v[4], v[5], v[6] >>]

\* self.odom_trans after set_messages(q, v)
SetOdomTrans(q) ==
  [frame_id |-> "world", child_frame_id |-> "base",
   translation |-> << q[1], q[2], q[3] >>,
   rotation    |-> [x |-> q[4], y |-> q[5], z |-> q[6], w |-> q[7]]]

(***************************************************************************)
(* The control laws of timer_callback.                                     *)
(***************************************************************************)
\* a posture error taken against the zero posture
PostureErrorFromZero(x, q) == Slice(q, 7, Len(q))

\* q_current[7:] - self.x0[7:self.nq]
PostureError(x, q) == VSub(Slice(q, 7, Len(q)), Slice(x, 7, nq))

\* the shapes line 216 needs: the slices subtract, Kp and Kd multiply them,
\* and u0 broadcasts against the nu results
StabilizingOk(u, x, q, v) ==
  /\ Broadcasts(Slice(q, 7, Len(q)), Slice(x, 7, nq))
  /\ BLen(Slice(q, 7, Len(q)), Slice(x, 7, nq)) = nu
  /\ Len(Slice(v, 6, Len(v))) = nu
  /\ Len(u) = nu \/ Len(u) = 1

\* a PD law that lost its damping term
StabilizingTorqueNoDamping(u, x, q, v) ==
  VSub(u, MatVec(Kp, PostureError(x, q)))

\* self.u0 - self.Kp @ (q_current[7:] - self.x0[7:self.nq])
\*         - self.Kd @ v_current[6:]
StabilizingTorque(u, x, q, v) ==
  VSub(VSub(u, MatVec(Kp, PostureError(x, q))),
       MatVec(Kd, Slice(v, 6, Len(v))))

\* the shapes line 220 needs: two states for difference, a gain of ndx
\* columns, and u0 broadcasting against one entry per row of the gain
FeedbackOk(u, K, x, q, v) ==
  /\ DifferenceOk(q \o v, x)
  /\ \A i \in 1..Len(K) : Len(K[i]) = ndx
  /\ Len(u) = Len(K) \/ Len(u) = 1 \/ Len(K) = 1

\* a feedback law that keeps the difference of the state of construction
FeedbackTorqueStale(u, K, x, q, v) ==
  VSub(u, MatVec(K, Difference(x0_default, x)))

\* self.u0 - self.K0 @ self.space.difference(x_measured, self.x0)
FeedbackTorque(u, K, x, q, v) ==
  VSub(u, MatVec(K, Difference(q \o v, x)))

\* a tick that tests start_mpc instead of not(start_mpc)
BranchOfNegated(start) ==
  IF start THEN "Stabilizing"
  ELSE IF parameter = "fulldynamics" THEN "FullDynamics"
  ELSE IF parameter = "kinodynamics" THEN "Kinodynamics"
  ELSE "None"

\* a tick whose two mode tests are exchanged
BranchOfSwapped(start) ==
  IF ~start THEN "Stabilizing"
  ELSE IF parameter = "kinodynamics" THEN "FullDynamics"
  ELSE IF parameter = "fulldynamics" THEN "Kinodynamics"
  ELSE "None"

\* the branch of timer_callback that a tick seeing start_mpc = start takes
BranchOf(start) ==
  IF ~start THEN "Stabilizing"
  ELSE IF parameter = "fulldynamics" THEN "FullDynamics"
  ELSE IF parameter = "kinodynamics" THEN "Kinodynamics"
  ELSE "None"

\* the stored command fields each branch reads
FieldsRead(branch) ==
  CASE branch = "Stabilizing"  -> {"u0", "x0"}
    [] branch = "FullDynamics" -> {"u0", "x0", "K0"}
    [] branch = "Kinodynamics" -> {"contact_states", "a0", "forces"}
    [] OTHER                   -> {}

\* a solve on the data the handler held before this tick's updateState
QPArgsStaleData(q, v) ==
  [data |-> handler, contact_states |-> contact_states,
   v |-> v, a0 |-> a0, forces |-> forces]

\* the arguments of solve_qp: the handler's data, updated from (q, v)
\* just before, then contact_states, v_current, a0, forces
QPArgs(q, v) ==
  [data |-> [q |-> q, v |-> v], contact_states |-> contact_states,
   v |-> v, a0 |-> a0, forces |-> forces]

NoQPArgs ==
  [data |-> [q |-> << >>, v |-> << >>], contact_states |-> << >>,
   v |-> << >>, a0 |-> << >>, forces |-> << >>]

\* Lines 215-231 of timer_callback for a tick that read (q, v) and took
\* branch: whether the torque computation raises, the new current_torque,
\* the handler, the fields and solver arguments it used, and whether the
\* solve_qp it called found no solution (qp_failed).  qp is what solve_qp
\* leaves in solved_torque.
TickBody(branch, q, v, qp) ==
  [raised  |-> CASE branch = "Stabilizing"  -> ~StabilizingOk(u0, x0, q, v)
                 [] branch = "FullDynamics" -> ~FeedbackOk(u0, K0, x0, q, v)
                 [] OTHER                   -> FALSE,
   torque  |-> CASE branch = "Stabilizing"  ->
                      IF StabilizingOk(u0, x0, q, v)
                        THEN StabilizingTorque(u0, x0, q, v)
                        ELSE current_torque
                 [] branch = "FullDynamics" ->
                      IF FeedbackOk(u0, K0, x0, q, v)
                        THEN FeedbackTorque(u0, K0, x0, q, v)
                        ELSE current_torque
                 [] branch = "Kinodynamics" -> qp.solved_torque
                 [] OTHER                   -> current_torque,
   handler |-> IF branch = "Kinodynamics" THEN [q |-> q, v |-> v] ELSE handler,
   qp_args |-> IF branch = "Kinodynamics" THEN QPArgs(q, v) ELSE NoQPArgs,
   qp_failed |-> branch = "Kinodynamics" /\ ~qp.feasible,
   used    |-> { src[f] : f \in FieldsRead(branch) }]

\* Lines 215-231 as the tick runs them
TickEffect(branch, q, v, qp) == TickBody(branch, q, v, qp)

\* self.torque_simu[6:] = self.current_torque raises unless the shapes agree
AssignTorqueOk(torque) == Len(torque) = nv - 6 \/ Len(torque) = 1

\* an assignment that starts one entry early, on the last base entry
AssignTorqueFromBase(simu, torque) ==
  [k \in 1..Len(simu) |->
     IF k <= 5 THEN simu[k] ELSE BAt(torque, IF k > 6 THEN k - 6 ELSE 1)]

\* self.torque_simu after self.torque_simu[6:] = self.current_torque
AssignTorque(simu, torque) ==
  [k \in 1..Len(simu) |-> IF k <= 6 THEN simu[k] ELSE BAt(torque, k - 6)]

\* Lines 201-210 of listener_callback for msg: the stored fields after it,
\* the fields it wrote, and whether it raised before setting start_mpc.
ListenerBody(msg) ==
  IF parameter = "fulldynamics" THEN
    IF ReshapeOk(msg.riccati, nu, ndx) THEN
      [u0 |-> msg.u0, x0 |-> msg.x0, K0 |-> Reshape(msg.riccati, nu, ndx),
       contact_states |-> contact_states, forces |-> forces, a0 |-> a0,
       start_mpc |-> TRUE, raised |-> FALSE, wrote |-> {"u0", "x0", "K0"}]
    ELSE
      [u0 |-> msg.u0, x0 |-> msg.x0, K0 |-> K0,
       contact_states |-> contact_states, forces |-> forces, a0 |-> a0,
       start_mpc |-> start_mpc, raised |-> TRUE, wrote |-> {"u0", "x0"}]
  ELSE IF parameter = "kinodynamics" THEN
    [u0 |-> u0, x0 |-> x0, K0 |-> K0,
     contact_states |-> msg.contact_states, forces |-> msg.forces,
     a0 |-> msg.a0,
     start_mpc |-> TRUE, raised |-> FALSE,
     wrote |-> {"contact_states", "forces", "a0"}]
  ELSE
    [u0 |-> u0, x0 |-> x0, K0 |-> K0,
     contact_states |-> contact_states, forces |-> forces, a0 |-> a0,
     start_mpc |-> TRUE, raised |-> FALSE, wrote |-> {}]

\* a listener that forgets to store x0
ListenerEffectKeepsX0(msg) ==
  [ListenerBody(msg) EXCEPT !.x0 = x0, !.wrote = @ \ {"x0"}]

\* a listener that stores the first command only
ListenerEffectKeepsFirst(msg) ==
  IF start_mpc
    THEN [ListenerBody(msg) EXCEPT !.u0 = u0, !.x0 = x0, !.K0 = K0,
                                   !.contact_states = contact_states,
                                   !.forces = forces, !.a0 = a0,
                                   !.wrote = {}]
    ELSE ListenerBody(msg)

\* a listener that forgets line 210
ListenerEffectNoStart(msg) ==
  [ListenerBody(msg) EXCEPT !.start_mpc = start_mpc]

\* a listener that stores u0 whatever the mode
ListenerEffectStoresU0(msg) ==
  [ListenerBody(msg) EXCEPT !.u0 = msg.u0, !.wrote = @ \cup {"u0"}]

\* a listener that sets start_mpc before it stores the fields
ListenerEffectStartsFirst(msg) ==
  [ListenerBody(msg) EXCEPT !.start_mpc = TRUE]

\* Lines 201-210 as the listener runs them
ListenerEffect(msg) == ListenerBody(msg)

NoMsg ==
  [u0 |-> << >>, x0 |-> << >>, riccati |-> << >>, contact_states |-> << >>,
   forces |-> << >>, a0 |-> << >>]

\* the record of a tick: its number n, the state (q, v) it read, the
\* start_mpc it saw and the branch it took, the torque it computed, the
\* deliveries (used) whose fields it read, the solve_qp arguments and
\* whether that solve failed, the number of the last delivery completed
\* when it began, whether it ran to its end (done), and the same of the
\* tick before it (prev)
NoPrev ==
  [branch |-> "None", q |-> << >>, v |-> << >>, torque |-> << >>,
   completed |-> 0, done |-> FALSE]

NoTick ==
  [n |-> 0, branch |-> "None", saw_start |-> FALSE, q |-> << >>,
   v |-> << >>, torque |-> << >>, used |-> {}, completed |-> 0,
   qp_args |-> NoQPArgs, qp_failed |-> FALSE, done |-> FALSE,
   prev |-> NoPrev]

PrevOf(t) ==
  [branch |-> t.branch, q |-> t.q, v |-> t.v, torque |-> t.torque,
   completed |-> t.completed, done |-> t.done]

(***************************************************************************)
(* MpcSubscriber.__init__                                                  *)
(***************************************************************************)
InitNode ==
  /\ parameter \in ParamValues
  /\ start_mpc = FALSE
  /\ sim = [q |-> q0, v |-> v0]
  /\ torque_simu = Zeros(nv)
  /\ current_torque = Zeros(nv - 6)
  /\ x0 = sim.q \o sim.v
  /\ u0 = u0_default
  /\ K0 = [i \in 1..nu |-> Zeros(ndx)]
  /\ contact_states = << >>
  /\ forces = << >>
  /\ a0 = << >>
  /\ measure = SetMeasure([position |-> Zeros(12), velocity |-> Zeros(12)],
                          sim.q, sim.v)
  /\ robot_state = SetRobotState([position |-> Zeros(12),
                                  velocity |-> Zeros(12)], sim.q, sim.v)
  /\ odom_trans = SetOdomTrans(sim.q)
  /\ WB_solver = IF parameter = "kinodynamics" THEN "IDSolver" ELSE "None"
  /\ handler = [q |-> << >>, v |-> << >>]
  /\ published = << >>
  /\ crashed = FALSE
  /\ tpc = "idle"
  /\ lpc = "idle"
  /\ t_q = << >>
  /\ t_v = << >>
  /\ t_branch = "None"
  /\ l_msg = NoMsg
  /\ src = [f \in {"u0", "x0", "K0", "contact_states", "forces", "a0"} |-> 0]
  /\ delivered = 0
  /\ completed = 0
  /\ last_msg = NoMsg
  /\ ticks = 0
  /\ executed = 0
  /\ last_tick = NoTick

\* rclpy.spin(mpc_subscriber): the single-threaded executor
Init == InitNode /\ executor = "single"

(***************************************************************************)
(* The callbacks under rclpy.spin: each runs to completion.  An exception  *)
(* that leaves a callback leaves rclpy.spin and main: the node stops.      *)
(***************************************************************************)
\* a tick that calls execute twice
AfterExecuteTwice(n) == n + 2

\* line 233: the number of integration steps of the plant after one call
\* of simulator.execute, n steps having been made before it
AfterExecute(n) == n + 1

\* a tick that reads the plant again after execute and publishes that
StateToPublishReread(q, v, next) == next

\* line 235: the (q, v) handed to set_messages is the one line 213 read;
\* next is the state of the plant after execute
StateToPublish(q, v, next) == [q |-> q, v |-> v]

\* listener_callback(msg), whole
ListenerCallback(msg) ==
  /\ executor = "single"
  /\ ~crashed
  /\ delivered < MaxDeliveries
  /\ \E e \in {ListenerEffect(msg)}, n \in {delivered + 1} :
         /\ u0' = e.u0
         /\ x0' = e.x0
         /\ K0' = e.K0
         /\ contact_states' = e.contact_states
         /\ forces' = e.forces
         /\ a0' = e.a0
         /\ start_mpc' = e.start_mpc
         /\ crashed' = e.raised
         /\ src' = [f \in DOMAIN src |-> IF f \in e.wrote THEN n ELSE src[f]]
         /\ delivered' = n
         /\ completed' = IF e.raised THEN completed ELSE n
         /\ last_msg' = msg
  /\ UNCHANGED << parameter, current_torque, torque_simu, WB_solver, handler,
                  sim, measure, robot_state, odom_trans, published, executor,
                  tpc, lpc, t_q, t_v, t_branch, l_msg, ticks, executed,
                  last_tick >>

\* timer_callback, whole: get_state, the control law, execute, set_messages
\* and the three publications.  next is the state the simulator reaches.
TimerCallback ==
  /\ executor = "single"
  /\ ~crashed
  /\ ticks < MaxTicks
  /\ \E qp \in QPOutcomes, next \in PlantStates :
       \E q \in {sim.q}, v \in {sim.v}, branch \in {BranchOf(start_mpc)} :
       \E e \in {TickEffect(branch, q, v, qp)} :
       \E stops \in {e.raised \/ ~AssignTorqueOk(e.torque)} :
           /\ ticks' = ticks + 1
           /\ last_tick' =
                [n |-> ticks + 1, branch |-> branch, saw_start |-> start_mpc,
                 q |-> q, v |-> v, torque |-> e.torque, used |-> e.used,
                 completed |-> completed, qp_args |-> e.qp_args,
                 qp_failed |-> e.qp_failed, done |-> ~stops,
                 prev |-> PrevOf(last_tick)]
           /\ handler' = e.handler
           /\ current_torque' = e.torque
           /\ crashed' = stops
           /\ IF stops
                THEN UNCHANGED << torque_simu, sim, executed, measure,
                                  robot_state, odom_trans, published >>
                ELSE /\ torque_simu' = AssignTorque(torque_simu, e.torque)
                     /\ sim' = next
                     /\ executed' = AfterExecute(executed)
                     /\ \E p \in {StateToPublish(q, v, next)} :
                          /\ measure' = SetMeasure(measure, p.q, p.v)
                          /\ robot_state' =
                               SetRobotState(robot_state, p.q, p.v)
                          /\ odom_trans' = SetOdomTrans(p.q)
                     /\ published' =
                          << [joint_states |-> measure',
                              robot_states |-> robot_state',
                              tf           |-> odom_trans'] >>
  /\ UNCHANGED << parameter, start_mpc, u0, x0, K0, contact_states, forces,
                  a0, WB_solver, executor, tpc, lpc, t_q, t_v, t_branch,
                  l_msg, src, delivered, completed, last_msg >>

\* a tick that swallows the failure of get_state and returns
GetStateFailsSwallowed ==
  /\ tpc = "idle"
  /\ ~crashed
  /\ ticks < (IF executor = "single" THEN MaxTicks ELSE MaxPreemptTicks)
  /\ ticks' = ticks + 1
  /\ last_tick' = [NoTick EXCEPT !.n = ticks + 1, !.completed = completed,
                                 !.prev = PrevOf(last_tick)]
  /\ UNCHANGED << node_vars, sim, published, crashed, executor, tpc, lpc,
                  t_q, t_v, t_branch, l_msg, src, delivered, completed,
                  last_msg, executed >>

\* timer_callback when simulator.get_state() raises
GetStateFails ==
  /\ tpc = "idle"
  /\ ~crashed
  /\ ticks < (IF executor = "single" THEN MaxTicks ELSE MaxPreemptTicks)
  /\ ticks' = ticks + 1
  /\ last_tick' = [NoTick EXCEPT !.n = ticks + 1, !.completed = completed,
                                 !.prev = PrevOf(last_tick)]
  /\ crashed' = TRUE
  /\ UNCHANGED << node_vars, sim, published, executor, tpc, lpc, t_q, t_v,
                  t_branch, l_msg, src, delivered, completed, last_msg,
                  executed >>

Next ==
  \/ \E msg \in Messages : ListenerCallback(msg)
  \/ TimerCallback
  \/ GetStateFails

Spec == Init /\ [][Next]_vars

(***************************************************************************)
(* The same callbacks under an executor that lets the listener and the     *)
(* tick preempt each other between statements: one step per statement.     *)
(***************************************************************************)
\* the first statement listener_callback runs for the configured mode
ListenerEntry ==
  IF parameter = "fulldynamics" THEN "L202"
  ELSE IF parameter = "kinodynamics" THEN "L206"
  ELSE "L210"

\* the field a store statement of listener_callback assigns
StoredField(pc) ==
  CASE pc = "L202" -> "u0"
    [] pc = "L203" -> "x0"
    [] pc = "L204" -> "K0"
    [] pc = "L206" -> "contact_states"
    [] pc = "L207" -> "forces"
    [] pc = "L208" -> "a0"

\* the statement after a store statement
AfterStore(pc) ==
  CASE pc = "L202" -> "L203"
    [] pc = "L203" -> "L204"
    [] pc = "L206" -> "L207"
    [] pc = "L207" -> "L208"
    [] OTHER       -> "L210"

\* a message is handed to listener_callback
ListenBegin(msg) ==
  /\ executor = "preemptive"
  /\ ~crashed
  /\ lpc = "idle"
  /\ delivered < MaxPreemptDeliveries
  /\ l_msg' = msg
  /\ last_msg' = msg
  /\ delivered' = delivered + 1
  /\ lpc' = ListenerEntry
  /\ UNCHANGED << node_vars, sim, published, crashed, executor, tpc, t_q,
                  t_v, t_branch, src, completed, ticks, executed, last_tick >>

\* one of lines 202-204, 206-208
ListenStore ==
  /\ executor = "preemptive"
  /\ ~crashed
  /\ lpc \in {"L202", "L203", "L204", "L206", "L207", "L208"}
  /\ \E f \in {StoredField(lpc)} :
       \E raises \in {f = "K0" /\ ~ReshapeOk(l_msg.riccati, nu, ndx)} :
         /\ u0' = IF f = "u0" THEN l_msg.u0 ELSE u0
         /\ x0' = IF f = "x0" THEN l_msg.x0 ELSE x0
         /\ K0' = IF f = "K0" /\ ~raises
                    THEN Reshape(l_msg.riccati, nu, ndx) ELSE K0
         /\ contact_states' =
              IF f = "contact_states" THEN l_msg.contact_states
                                      ELSE contact_states
         /\ forces' = IF f = "forces" THEN l_msg.forces ELSE forces
         /\ a0' = IF f = "a0" THEN l_msg.a0 ELSE a0
         /\ src' = IF raises THEN src ELSE [src EXCEPT ![f] = delivered]
         /\ crashed' = raises
         /\ lpc' = IF raises THEN "idle" ELSE AfterStore(lpc)
  /\ UNCHANGED << parameter, start_mpc, current_torque, torque_simu,
                  WB_solver, handler, sim, measure, robot_state, odom_trans,
                  published, executor, tpc, t_q, t_v, t_branch, l_msg,
                  delivered, completed, last_msg, ticks, executed,
                  last_tick >>

\* line 210
ListenFinish ==
  /\ executor = "preemptive"
  /\ ~crashed
  /\ lpc = "L210"
  /\ start_mpc' = TRUE
  /\ completed' = delivered
  /\ lpc' = "idle"
  /\ l_msg' = NoMsg
  /\ UNCHANGED << parameter, u0, x0, K0, contact_states, forces, a0,
                  current_torque, torque_simu, WB_solver, handler, sim,
                  measure, robot_state, odom_trans, published, crashed,
                  executor, tpc, t_q, t_v, t_branch, src, delivered,
                  last_msg, ticks, executed, last_tick >>

\* line 213
TickRead ==
  /\ executor = "preemptive"
  /\ ~crashed
  /\ tpc = "idle"
  /\ ticks < MaxPreemptTicks
  /\ t_q' = sim.q
  /\ t_v' = sim.v
  /\ ticks' = ticks + 1
  /\ last_tick' = [NoTick EXCEPT !.n = ticks + 1, !.q = sim.q, !.v = sim.v,
                                 !.completed = completed,
                                 !.prev = PrevOf(last_tick)]
  /\ tpc' = "T215"
  /\ UNCHANGED << node_vars, sim, published, crashed, executor, lpc,
                  t_branch, l_msg, src, delivered, completed, last_msg,
                  executed >>

\* lines 215, 218, 221: the tests that select the branch
TickTest ==
  /\ executor = "preemptive"
  /\ ~crashed
  /\ tpc = "T215"
  /\ t_branch' = BranchOf(start_mpc)
  /\ last_tick' = [last_tick EXCEPT !.branch = BranchOf(start_mpc),
                                    !.saw_start = start_mpc]
  /\ tpc' = "law"
  /\ UNCHANGED << node_vars, sim, published, crashed, executor, lpc, t_q,
                  t_v, l_msg, src, delivered, completed, last_msg, ticks,
                  executed >>

\* the selected branch: line 216, lines 219-220 or lines 222-231
TickLaw ==
  /\ executor = "preemptive"
  /\ ~crashed
  /\ tpc = "law"
  /\ \E qp \in QPOutcomes :
     \E e \in {TickEffect(t_branch, t_q, t_v, qp)} :
       /\ current_torque' = e.torque
       /\ handler' = e.handler
       /\ last_tick' = [last_tick EXCEPT !.torque = e.torque,
                                         !.used = e.used,
                                         !.qp_args = e.qp_args,
                                         !.qp_failed = e.qp_failed]
       /\ crashed' = e.raised
       /\ tpc' = IF e.raised THEN "idle" ELSE "T232"
  /\ UNCHANGED << parameter, start_mpc, u0, x0, K0, contact_states, forces,
                  a0, torque_simu, WB_solver, sim, measure, robot_state,
                  odom_trans, published, executor, lpc, t_q, t_v, t_branch,
                  l_msg, src, delivered, completed, last_msg, ticks,
                  executed >>

\* lines 232-238: they read and write nothing listener_callback writes, so
\* no interleaving with it is lost by taking them in one step
TickApply ==
  /\ executor = "preemptive"
  /\ ~crashed
  /\ tpc = "T232"
  /\ IF AssignTorqueOk(current_torque)
       THEN /\ torque_simu' = AssignTorque(torque_simu, current_torque)
            /\ sim' \in PlantStates
            /\ executed' = AfterExecute(executed)
            /\ measure' = SetMeasure(measure, t_q, t_v)
            /\ robot_state' = SetRobotState(robot_state, t_q, t_v)
            /\ odom_trans' = SetOdomTrans(t_q)
            /\ published' =
                 << [joint_states |-> measure', robot_states |-> robot_state',
                     tf |-> odom_trans'] >>
            /\ last_tick' = [last_tick EXCEPT !.done = TRUE]
            /\ UNCHANGED crashed
       ELSE /\ crashed' = TRUE
            /\ UNCHANGED << torque_simu, sim, executed, measure, robot_state,
                            odom_trans, published, last_tick >>
  /\ tpc' = "idle"
  /\ t_q' = << >>
  /\ t_v' = << >>
  /\ t_branch' = "None"
  /\ UNCHANGED << parameter, start_mpc, u0, x0, K0, contact_states, forces,
                  a0, current_torque, WB_solver, handler, executor, lpc,
                  l_msg, src, delivered, completed, last_msg, ticks >>

\* the node under either executor
InitSched == InitNode /\ executor \in {"single", "preemptive"}

NextSched ==
  \/ \E msg \in Messages : ListenerCallback(msg)
  \/ TimerCallback
  \/ GetStateFails
  \/ \E msg \in Messages : ListenBegin(msg)
  \/ ListenStore
  \/ ListenFinish
  \/ TickRead
  \/ TickTest
  \/ TickLaw
  \/ TickApply

SpecSched == InitSched /\ [][NextSched]_vars

(***************************************************************************)
(* C1.  start_mpc is false at construction, is true after the delivery of  *)
(* a well-formed command, and once true stays true: a tick that begins     *)
(* when start_mpc is true never takes the Stabilizing branch, however many *)
(* ticks pass without a delivery.                                          *)
(***************************************************************************)
C1_OneWayTransition ==
  /\ ~start_mpc
  /\ [][/\ start_mpc => start_mpc'
        /\ (delivered' # delivered /\ WellFormed(last_msg')) => start_mpc'
        /\ (ticks' # ticks /\ start_mpc /\ last_tick'.q # << >>)
             => last_tick'.branch # "Stabilizing"]_vars

\* a second tick in a row with no delivery since the one before the first
C1_Witness ==
  /\ start_mpc
  /\ last_tick.n = 2
  /\ last_tick.done
  /\ last_tick.completed = 1
  /\ last_tick.prev.completed = 1
  /\ last_tick.branch \in {"FullDynamics", "Kinodynamics"}

(***************************************************************************)
(* C2.  A tick that sees start_mpc false applies, joint by joint,          *)
(* u0_default - gain * (q - x0_default) - v with the u0 and x0 fixed at    *)
(* construction; at q = x0_default, v = 0 that is u0_default exactly.      *)
(***************************************************************************)
C2_StabilizingIsDefaultPD ==
  (last_tick.q # << >> /\ ~last_tick.saw_start) =>
    /\ last_tick.branch = "Stabilizing"
    /\ last_tick.done
    /\ Len(last_tick.torque) = nu
    /\ \A i \in 1..nu :
         last_tick.torque[i] =
           u0_default[i] - gain * (last_tick.q[7 + i] - x0_default[7 + i])
                         - last_tick.v[6 + i]
    /\ SubSeq(torque_simu, 7, nv) = last_tick.torque
    /\ (last_tick.q = SubSeq(x0_default, 1, nq) /\ last_tick.v = Zeros(nv))
         => last_tick.torque = u0_default

\* a Stabilizing tick off the nominal posture, after an earlier tick
C2_Witness ==
  /\ last_tick.n = 2
  /\ last_tick.branch = "Stabilizing"
  /\ last_tick.q = qMoved
  /\ last_tick.v = vMoved
  /\ last_tick.torque # u0_default

(***************************************************************************)
(* C3.  A FullDynamics command of the wrong sizes is rejected whole: its   *)
(* delivery leaves every stored command field and start_mpc as they were,  *)
(* and no later tick reads a field that delivery wrote.                    *)
(***************************************************************************)
C3_MalformedRejectedWhole ==
  [][/\ (/\ delivered' # delivered
         /\ parameter = "fulldynamics"
         /\ ~WellFormed(last_msg'))
          => UNCHANGED << u0, x0, K0, contact_states, forces, a0, start_mpc >>
     /\ (/\ ticks' # ticks
         /\ parameter = "fulldynamics"
         /\ delivered \in last_tick'.used)
          => WellFormed(last_msg)]_vars

(***************************************************************************)
(* C4.  Whatever mpc_type is, a tick that sees start_mpc true computes its *)
(* torque by the FullDynamics law or by the Kinodynamics law.              *)
(***************************************************************************)
C4_ExactlyOneLaw ==
  (last_tick.q # << >> /\ last_tick.saw_start) =>
    last_tick.branch \in {"FullDynamics", "Kinodynamics"}

(***************************************************************************)
(* C5.  The fields a tick reads were all written by one delivery, and a    *)
(* tick that sees start_mpc false reads no field a delivery wrote: as      *)
(* claimed, under either executor.                                         *)
(***************************************************************************)
C5_NeverTorn ==
  last_tick.q # << >> =>
    /\ Cardinality(last_tick.used) <= 1
    /\ ~last_tick.saw_start => last_tick.used \subseteq {0}

(***************************************************************************)
(* C5, amended.  Under the run-to-completion executor of rclpy.spin the    *)
(* fields a tick reads were all written by one delivery, and a tick that   *)
(* sees start_mpc false reads only the fields of construction.             *)
(***************************************************************************)
C5_NeverTornRunToCompletion ==
  (executor = "single" /\ last_tick.q # << >>) =>
    /\ Cardinality(last_tick.used) <= 1
    /\ ~last_tick.saw_start => last_tick.used \subseteq {0}

\* a FullDynamics tick that read the second of two commands
C5_Witness ==
  /\ executor = "single"
  /\ last_tick.done
  /\ last_tick.branch = "FullDynamics"
  /\ last_tick.completed = 2
  /\ last_tick.used = {2}

\* the three messages last published report the plant state (q, v)
PublishedIs(q, v) ==
  /\ published # << >>
  /\ published[1].joint_states.position = SubSeq(q, 8, nq)
  /\ published[1].joint_states.velocity = SubSeq(v, 7, nv)
  /\ published[1].robot_states.position = SubSeq(q, 8, nq)
  /\ published[1].robot_states.velocity = SubSeq(v, 7, nv)
  /\ published[1].robot_states.translation = SubSeq(q, 1, 3)
  /\ published[1].robot_states.rotation =
       [x |-> q[4], y |-> q[5], z |-> q[6], w |-> q[7]]
  /\ published[1].robot_states.linear = SubSeq(v, 1, 3)
  /\ published[1].robot_states.angular = SubSeq(v, 4, 6)
  /\ published[1].tf.translation = SubSeq(q, 1, 3)
  /\ published[1].tf.rotation =
       [x |-> q[4], y |-> q[5], z |-> q[6], w |-> q[7]]

(***************************************************************************)
(* C6.  The state a tick publishes is the state of the plant after that    *)
(* tick's execute(torque): as claimed.                                     *)
(***************************************************************************)
C6_PublishesStateAfterExecute ==
  last_tick.done => PublishedIs(sim.q, sim.v)

(***************************************************************************)
(* C6, amended.  A tick reads the state, computes the torque, executes it  *)
(* and publishes; the state it publishes is the one it read at its start,  *)
(* before execute, and execute has run once for every tick that published. *)
(***************************************************************************)
C6_PublishesStateReadAtStart ==
  /\ last_tick.done => PublishedIs(last_tick.q, last_tick.v)
  /\ (published # << >>) = (executed > 0)

\* a tick during which the plant moved
C6_Witness ==
  /\ last_tick.done
  /\ last_tick.q = q0
  /\ sim.q = qMoved
  /\ published # << >>

(***************************************************************************)
(* C7.  A tick that begins after a delivery completed sees start_mpc true  *)
(* and reads exactly the fields of the last delivery completed before it   *)
(* began; it reads nothing of a delivery made after it began.              *)
(***************************************************************************)
C7_CompletedCommandVisible ==
  last_tick.q # << >> =>
    /\ last_tick.saw_start = (last_tick.completed > 0)
    /\ last_tick.completed > 0 => last_tick.branch # "Stabilizing"
    /\ last_tick.branch \in {"FullDynamics", "Kinodynamics"}
         => last_tick.used = {last_tick.completed}
    /\ \A id \in last_tick.used : id <= last_tick.completed
    /\ last_tick.completed <= completed

\* the first tick after the first command, then a second command
C7_Witness ==
  /\ last_tick.n = 1
  /\ last_tick.done
  /\ last_tick.branch = "FullDynamics"
  /\ last_tick.used = {1}
  /\ completed = 2

(***************************************************************************)
(* C8.  The stored command is one slot: after a delivery completes, the    *)
(* fields of the configured mode are those of that message and of no       *)
(* earlier one, and a Tracking tick reads only them.                       *)
(***************************************************************************)
C8_LastWriteWins ==
  /\ (parameter = "fulldynamics" /\ completed > 0 /\ completed = delivered)
       => /\ u0 = last_msg.u0
          /\ x0 = last_msg.x0
          /\ K0 = Reshape(last_msg.riccati, nu, ndx)
          /\ \A f \in {"u0", "x0", "K0"} : src[f] = completed
  /\ (parameter = "kinodynamics" /\ completed > 0)
       => /\ contact_states = last_msg.contact_states
          /\ forces = last_msg.forces
          /\ a0 = last_msg.a0
          /\ \A f \in {"contact_states", "forces", "a0"} : src[f] = completed
  /\ last_tick.branch \in {"FullDynamics", "Kinodynamics"}
       => \A id \in 0..delivered :
            id # last_tick.completed => id \notin last_tick.used

\* two commands delivered between the first tick and the second
C8_Witness ==
  /\ last_tick.n = 2
  /\ last_tick.done
  /\ last_tick.prev.done
  /\ last_tick.prev.completed = 0
  /\ last_tick.completed = 2
  /\ last_tick.branch = "FullDynamics"

(***************************************************************************)
(* C9.  A fulldynamics node has no WB_solver, never updates the handler    *)
(* and never calls solve_qp; a kinodynamics node never takes the linear    *)
(* feedback branch; the solver built at construction is the one of the     *)
(* mode every tick dispatches on.                                          *)
(***************************************************************************)
C9_ModeIsolation ==
  /\ (WB_solver = "IDSolver") = (parameter = "kinodynamics")
  /\ parameter = "fulldynamics" =>
       /\ WB_solver = "None"
       /\ last_tick.branch # "Kinodynamics"
       /\ last_tick.qp_args = NoQPArgs
       /\ handler = [q |-> << >>, v |-> << >>]
  /\ parameter = "kinodynamics" =>
       /\ last_tick.branch # "FullDynamics"
       /\ last_tick.saw_start =>
            /\ last_tick.branch = "Kinodynamics"
            /\ \E qp \in QPOutcomes : last_tick.torque = qp.solved_torque

\* a fulldynamics node in Tracking for the second tick
C9_Witness ==
  /\ parameter = "fulldynamics"
  /\ last_tick.n = 2
  /\ last_tick.done
  /\ last_tick.branch = "FullDynamics"
  /\ last_tick.prev.branch = "FullDynamics"

\* the latest two ticks both ran the FullDynamics law on one stored command
SameCommandTwice ==
  /\ last_tick.done
  /\ last_tick.branch = "FullDynamics"
  /\ last_tick.prev.done
  /\ last_tick.prev.branch = "FullDynamics"
  /\ last_tick.completed = last_tick.prev.completed

(***************************************************************************)
(* C10.  Two ticks that hold the same FullDynamics command and read two    *)
(* different states compute two different torques: as claimed.             *)
(***************************************************************************)
C10_DifferentStatesDifferentTorques ==
  (/\ SameCommandTwice
   /\ << last_tick.q, last_tick.v >> # << last_tick.prev.q, last_tick.prev.v >>)
    => last_tick.torque # last_tick.prev.torque

(***************************************************************************)
(* C10, amended.  Every FullDynamics tick computes u0 - K0 * difference of *)
(* the state read in that same tick and x0, also when the command is the   *)
(* one of the tick before; two such ticks compute different torques        *)
(* exactly when K0 * difference is different for their two states.         *)
(***************************************************************************)
C10_TorqueRecomputedFromFreshState ==
  (/\ last_tick.done
   /\ last_tick.branch = "FullDynamics"
   /\ delivered = last_tick.completed) =>
    /\ last_tick.torque =
         VSub(u0, MatVec(K0, Difference(last_tick.q \o last_tick.v, x0)))
    /\ SameCommandTwice =>
         ((last_tick.torque = last_tick.prev.torque) =
            (MatVec(K0, Difference(last_tick.q \o last_tick.v, x0)) =
               MatVec(K0, Difference(last_tick.prev.q \o last_tick.prev.v,
                                     x0))))

\* the same command, two different states, two different torques
C10_Witness ==
  /\ SameCommandTwice
  /\ delivered = last_tick.completed
  /\ last_tick.q # last_tick.prev.q
  /\ last_tick.torque # last_tick.prev.torque

(***************************************************************************)
(* C11.  The vector a tick hands to execute is torque_simu: its six base   *)
(* entries are zero in every state, whatever the mode and the branch, and  *)
(* the entries after them are the torque the tick computed.                *)
(***************************************************************************)
C11_BaseEntriesZero ==
  /\ Len(torque_simu) = nv
  /\ \A k \in 1..6 : torque_simu[k] = 0
  /\ last_tick.done =>
       /\ Len(last_tick.torque) = nu
       /\ \A k \in 7..nv : torque_simu[k] = last_tick.torque[k - 6]

\* a Tracking tick after a Stabilizing tick, every joint torque non-zero
C11_Witness ==
  /\ last_tick.done
  /\ last_tick.branch \in {"FullDynamics", "Kinodynamics"}
  /\ last_tick.prev.done
  /\ last_tick.prev.branch = "Stabilizing"
  /\ \A k \in 7..nv : torque_simu[k] # 0

(***************************************************************************)
(* C12.  A Kinodynamics tick whose solve_qp found no solution is a failed  *)
(* tick: it does not run to its end and does not call execute, so the      *)
(* output of the failed solve is not applied to the plant.                 *)
(***************************************************************************)
C12_FailedSolveNotApplied ==
  last_tick.qp_failed =>
    /\ ~last_tick.done
    /\ executed < last_tick.n
    /\ SubSeq(torque_simu, 7, nv) # last_tick.torque

\* the get_state of the latest tick raised
ReadFailed == last_tick.n > 0 /\ last_tick.q = << >>

(***************************************************************************)
(* C13.  A tick whose get_state raises computes and applies nothing: the   *)
(* step that fails, and every step after it, leaves the count of execute   *)
(* calls, the plant, torque_simu and the outputs as they were, and the     *)
(* node has stopped.                                                       *)
(***************************************************************************)
C13_HaltsOnFailedRead ==
  /\ [](ReadFailed => (crashed /\ ~last_tick.done))
  /\ [][(ReadFailed \/ ReadFailed')
          => UNCHANGED << executed, sim, torque_simu, current_torque,
                          published >>]_vars

\* the second tick fails to read the state, after a command and a tick
C13_Witness ==
  /\ ReadFailed
  /\ last_tick.n = 2
  /\ last_tick.prev.done
  /\ executed = 1
  /\ start_mpc

(***************************************************************************)
(* C14.  A delivery leaves the plant, the count of execute calls,          *)
(* torque_simu, current_torque, the handler and the outgoing messages as   *)
(* they were, and of the stored command it changes only the fields of the  *)
(* configured mode and start_mpc.  (Kp and Kd are assigned at lines        *)
(* 170-171 only; the model holds them as definitions.)                     *)
(***************************************************************************)
C14_ListenerOwnsOnlyCommand ==
  [][delivered' # delivered =>
       /\ UNCHANGED << sim, executed, ticks, torque_simu, current_torque,
                       handler, WB_solver, parameter, measure, robot_state,
                       odom_trans, published, last_tick >>
       /\ parameter # "fulldynamics" => UNCHANGED << u0, x0, K0 >>
       /\ parameter # "kinodynamics"
            => UNCHANGED << contact_states, forces, a0 >>]_vars

\* a command delivered after a tick that executed and published
C14_Witness ==
  /\ last_tick.done
  /\ last_tick.completed = 0
  /\ completed = 1
  /\ executed = 1
  /\ published # << >>
  /\ SubSeq(torque_simu, 7, nv) = u0_default

\* the (q, v) last handed to set_messages: by the latest tick that reached
\* line 235, or by __init__ at line 166
Handed ==
  IF last_tick.done THEN [q |-> last_tick.q, v |-> last_tick.v]
  ELSE IF last_tick.prev.done
    THEN [q |-> last_tick.prev.q, v |-> last_tick.prev.v]
    ELSE [q |-> q0, v |-> v0]

(***************************************************************************)
(* C15.  After set_messages(q, v) the joint-state and robot-state messages *)
(* carry for joint i = 0..11, at index i, position q[7 + i] and velocity   *)
(* v[6 + i]; the transform and the robot state carry translation q[0..2]   *)
(* and rotation (x, y, z, w) = q[3..6]; the twist carries v[0..5]; what is *)
(* published is those messages, with nothing of an earlier (q, v).         *)
(***************************************************************************)
C15_MessagesCarryHandedState ==
  \E q \in {Handed.q}, v \in {Handed.v} :
    /\ Len(measure.position) = 12 /\ Len(measure.velocity) = 12
    /\ Len(robot_state.position) = 12 /\ Len(robot_state.velocity) = 12
    /\ \A i \in 0..11 :
         /\ measure.position[i + 1] = q[7 + i + 1]
         /\ measure.velocity[i + 1] = v[6 + i + 1]
         /\ robot_state.position[i + 1] = q[7 + i + 1]
         /\ robot_state.velocity[i + 1] = v[6 + i + 1]
    /\ \A m \in {robot_state, odom_trans} :
         /\ m.translation = << q[0 + 1], q[1 + 1], q[2 + 1] >>
         /\ m.rotation.x = q[3 + 1] /\ m.rotation.y = q[4 + 1]
         /\ m.rotation.z = q[5 + 1] /\ m.rotation.w = q[6 + 1]
    /\ robot_state.linear = << v[0 + 1], v[1 + 1], v[2 + 1] >>
    /\ robot_state.angular = << v[3 + 1], v[4 + 1], v[5 + 1] >>
    /\ odom_trans.frame_id = "world" /\ odom_trans.child_frame_id = "base"
    /\ published # << >> =>
         published[1] = [joint_states |-> measure,
                         robot_states |-> robot_state, tf |-> odom_trans]

\* the second tick hands over another state than the first
C15_Witness ==
  /\ last_tick.done
  /\ last_tick.prev.done
  /\ last_tick.prev.q = q0
  /\ last_tick.q = qMoved
  /\ last_tick.v = vMoved
  /\ published[1].joint_states.position[1] = 78
  /\ published[1].robot_states.linear[1] = 20

\* the state x with the other quaternion of the same base rotation
OtherQuaternion(x) ==
  [k \in 1..Len(x) |-> IF k \in 4..7 THEN -x[k] ELSE x[k]]

(***************************************************************************)
(* C16.  A FullDynamics tick that measures the state x0 with the base      *)
(* quaternion of the opposite sign finds the difference to x0 to be the    *)
(* zero vector of ndx entries, and its torque is u0, whatever the gain K0. *)
(***************************************************************************)
C16_DoubleCoverHasZeroDifference ==
  (/\ last_tick.done
   /\ last_tick.branch = "FullDynamics"
   /\ delivered = last_tick.completed
   /\ last_tick.q \o last_tick.v = OtherQuaternion(x0)) =>
    /\ last_tick.q \o last_tick.v # x0
    /\ Difference(last_tick.q \o last_tick.v, x0) = Zeros(ndx)
    /\ last_tick.torque = u0

\* such a tick under a gain on the error of the base orientation
C16_Witness ==
  /\ last_tick.done
  /\ last_tick.branch = "FullDynamics"
  /\ delivered = last_tick.completed
  /\ last_tick.q = qFlipped
  /\ x0 = q0 \o v0
  /\ \E i \in 1..nu : \E j \in 4..6 : K0[i][j] # 0
  /\ last_tick.torque = u0

\* the ticks that ran to their end: a tick that raises is the last one
DoneTicks ==
  IF last_tick.n > 0 /\ ~last_tick.done THEN ticks - 1 ELSE ticks

(***************************************************************************)
(* C17.  The plant has made one integration step for every tick that ran   *)
(* to its end, whatever deliveries came between them.  A tick that has     *)
(* not yet passed its torque computation has not called execute; a tick    *)
(* that ran to its end has read the state, has executed the torque it      *)
(* computed, and has published after it.                                   *)
(***************************************************************************)
C17_ExecuteOncePerCompletedTick ==
  /\ executed = DoneTicks
  /\ tpc # "idle" => (~last_tick.done /\ executed = ticks - 1)
  /\ last_tick.done =>
       /\ last_tick.q # << >>
       /\ executed = last_tick.n
       /\ SubSeq(torque_simu, 7, nv) = last_tick.torque
       /\ published # << >>
  /\ published # << >> => executed >= 1

\* two completed ticks, a delivery between them and one after them
C17_Witness ==
  /\ executed = 2
  /\ ticks = 2
  /\ last_tick.done
  /\ last_tick.prev.completed = 0
  /\ last_tick.completed = 1
  /\ completed = 2

(***************************************************************************)
(* C18.  A Kinodynamics tick gives solve_qp the handler's data updated     *)
(* from the (q, v) it read itself, that same v, and the contact_states,    *)
(* a0 and forces of the last command delivered before it began; the        *)
(* handler then holds that (q, v), not the one of an earlier tick.         *)
(***************************************************************************)
C18_SolveOnThisTicksState ==
  last_tick.branch = "Kinodynamics" =>
    /\ last_tick.q # << >>
    /\ last_tick.qp_args.data = [q |-> last_tick.q, v |-> last_tick.v]
    /\ last_tick.qp_args.v = last_tick.v
    /\ handler = [q |-> last_tick.q, v |-> last_tick.v]
    /\ last_tick.used = {last_tick.completed}
    /\ delivered = last_tick.completed =>
         /\ last_tick.qp_args.contact_states = last_msg.contact_states
         /\ last_tick.qp_args.a0 = last_msg.a0
         /\ last_tick.qp_args.forces = last_msg.forces

\* the second Kinodynamics tick reads another state than the first and
\* holds a newer command
C18_Witness ==
  /\ last_tick.n = 2
  /\ last_tick.branch = "Kinodynamics"
  /\ last_tick.prev.branch = "Kinodynamics"
  /\ last_tick.q # last_tick.prev.q
  /\ last_tick.completed = 2
  /\ last_tick.prev.completed = 1
  /\ delivered = 2
  /\ last_tick.qp_args.a0 = last_msg.a0

(***************************************************************************)
(* C19.  When start_mpc is true, every command field the Tracking branch   *)
(* of the configured mode reads was written by a delivery (in Kinodynamics *)
(* contact_states, forces and a0 exist); a Tracking tick saw start_mpc     *)
(* true and, once it has run its law, has read no field left as            *)
(* construction made it.  Under either executor.                           *)
(***************************************************************************)
C19_TrackingFieldsAssigned ==
  /\ start_mpc =>
       \A f \in FieldsRead(BranchOf(TRUE)) : src[f] \in 1..delivered
  /\ (start_mpc /\ parameter = "kinodynamics") =>
       (contact_states # << >> /\ forces # << >> /\ a0 # << >>)
  /\ last_tick.branch \in {"FullDynamics", "Kinodynamics"} =>
       /\ last_tick.saw_start
       /\ tpc # "law" => last_tick.used # {}
       /\ 0 \notin last_tick.used

\* the first Kinodynamics tick, on the fields of the first command
C19_Witness ==
  /\ start_mpc
  /\ parameter = "kinodynamics"
  /\ last_tick.n = 1
  /\ last_tick.done
  /\ last_tick.branch = "Kinodynamics"
  /\ last_tick.used = {1}
  /\ last_tick.qp_args.contact_states # << >>

(***************************************************************************)
(* C20.  The first tick, when no command was delivered before it, reads    *)
(* the state x0 was captured from, so its posture error and velocity term  *)
(* are zero: it runs to its end and hands execute exactly u0_default on    *)
(* the actuated joints.                                                    *)
(***************************************************************************)
C20_FirstTickAppliesNominal ==
  (last_tick.n = 1 /\ last_tick.q # << >> /\ last_tick.completed = 0) =>
    /\ last_tick.branch = "Stabilizing"
    /\ last_tick.q \o last_tick.v = x0_default
    /\ PostureError(x0_default, last_tick.q) = Zeros(nu)
    /\ last_tick.torque = u0_default
    /\ last_tick.done
    /\ executed = 1
    /\ SubSeq(torque_simu, 7, nv) = u0_default

\* that tick, the plant having moved under its torque
C20_Witness ==
  /\ last_tick.n = 1
  /\ last_tick.completed = 0
  /\ delivered = 0
  /\ last_tick.done
  /\ last_tick.torque = u0_default
  /\ sim.q = qMoved

====
